---------------------------- MODULE Spec2Model ----------------------------
(***************************************************************************)
(* A model of PrometheusReporter (src/src/reporters/PrometheusReporter.js) *)
(* : the reporter that turns finished tracing spans into the histograms    *)
(* and counters of a prom-client registry.                                 *)
(*                                                                         *)
(* Representation.                                                         *)
(*  - A JavaScript string is a sequence of one-character strings, so that  *)
(*    toUpperCase, replace, match and URL parsing are computed character   *)
(*    by character.                                                        *)
(*  - A JavaScript value (what getTag returns) is a record [t, s, n]: t is *)
(*    the type ("undef", "str", "num", "bool"), s the characters of a      *)
(*    string, n the number (a boolean keeps 1 or 0 in n).  NaN is          *)
(*    [t |-> "nan"].                                                       *)
(*  - A value in seconds is an integer number of microseconds: the literal *)
(*    0.005 is 5000, and x / 1000 for x in milliseconds is x * 1000.       *)
(***************************************************************************)
EXTENDS Integers, Sequences, FiniteSets

VARIABLES
    registry,    \* this._registry: the metrics, in registration order
    ignoreTags,  \* this._options.ignoreTags: the rules, in entry order
    log,         \* history: the calls made on the reporter, with their outcome
    static       \* the last call of a static helper: [fn, args, ret]

vars == <<registry, ignoreTags, log, static>>

-----------------------------------------------------------------------------
(* Bounds of the model.                                                    *)

\* The number of calls (reportFinish, metrics, accessors) in one behaviour.
MaxCalls == 2

\* The longest name and namespace handed to metricName.
MaxNameLen == 2

-----------------------------------------------------------------------------
(* JavaScript values and strings.                                          *)

Undef == [t |-> "undef", s |-> <<>>, n |-> 0]
NaN == [t |-> "nan", s |-> <<>>, n |-> 0]
Str(cs) == [t |-> "str", s |-> cs, n |-> 0]
Num(k) == [t |-> "num", s |-> <<>>, n |-> k]
Bool(b) == [t |-> "bool", s |-> <<>>, n |-> IF b THEN 1 ELSE 0]

\* ToBoolean: undefined, '', 0, NaN and false are falsy.
Truthy(v) ==
    CASE v.t = "undef" -> FALSE
      [] v.t = "nan" -> FALSE
      [] v.t = "str" -> v.s # <<>>
      [] v.t = "num" -> v.n # 0
      [] v.t = "bool" -> v.n = 1

LowerLetters ==
    <<"a", "b", "c", "d", "e", "f", "g", "h", "i", "j", "k", "l", "m",
      "n", "o", "p", "q", "r", "s", "t", "u", "v", "w", "x", "y", "z">>

UpperLetters ==
    <<"A", "B", "C", "D", "E", "F", "G", "H", "I", "J", "K", "L", "M",
      "N", "O", "P", "Q", "R", "S", "T", "U", "V", "W", "X", "Y", "Z">>

Digits == <<"0", "1", "2", "3", "4", "5", "6", "7", "8", "9">>

Range(f) == {f[i] : i \in DOMAIN f}

IsLetter(c) == c \in Range(LowerLetters) \cup Range(UpperLetters)
IsDigit(c) == c \in Range(Digits)

\* String.prototype.toUpperCase / toLowerCase, one character.
UpperChar(c) ==
    IF c \in Range(LowerLetters)
    THEN UpperLetters[CHOOSE i \in DOMAIN LowerLetters : LowerLetters[i] = c]
    ELSE c

LowerChar(c) ==
    IF c \in Range(UpperLetters)
    THEN LowerLetters[CHOOSE i \in DOMAIN UpperLetters : UpperLetters[i] = c]
    ELSE c

toUpperCase(cs) == [i \in DOMAIN cs |-> UpperChar(cs[i])]
toLowerCase(cs) == [i \in DOMAIN cs |-> LowerChar(cs[i])]

\* cs.slice(from - 1): the characters from position `from` on.
Drop(cs, from) == SubSeq(cs, from, Len(cs))

\* The first position of cs holding a character of the set, or 0.
IndexOfAny(cs, set) ==
    IF \E i \in DOMAIN cs : cs[i] \in set
    THEN CHOOSE i \in DOMAIN cs :
            cs[i] \in set /\ \A j \in 1..(i - 1) : cs[j] \notin set
    ELSE 0

\* str.match(/pat/) for a pattern of literal characters: pat occurs in cs.
Matches(cs, pat) ==
    \E i \in 0..(Len(cs) - Len(pat)) : SubSeq(cs, i + 1, i + Len(pat)) = pat

\* The value of a digit character.
DigitValue(c) == (CHOOSE i \in DOMAIN Digits : Digits[i] = c) - 1

RECURSIVE DigitsValue(_)
DigitsValue(cs) ==
    IF cs = <<>> THEN 0
    ELSE 10 * DigitsValue(SubSeq(cs, 1, Len(cs) - 1)) + DigitValue(cs[Len(cs)])

RECURSIVE NatToString(_)
NatToString(k) ==
    IF k < 10 THEN <<Digits[k + 1]>>
    ELSE NatToString(k \div 10) \o <<Digits[(k % 10) + 1]>>

\* String(v): the string a value converts to.
JSString(v) ==
    CASE v.t = "str" -> v.s
      [] v.t = "num" ->
            IF v.n < 0 THEN <<"-">> \o NatToString(-v.n) ELSE NatToString(v.n)
      [] v.t = "bool" ->
            IF v.n = 1 THEN <<"t", "r", "u", "e">>
            ELSE <<"f", "a", "l", "s", "e">>
      [] v.t = "nan" -> <<"N", "a", "N">>
      [] v.t = "undef" -> <<"u", "n", "d", "e", "f", "i", "n", "e", "d">>

\* The longest prefix of cs made of digits.
DigitPrefix(cs) ==
    LET stop == IndexOfAny(cs, Range(cs) \ Range(Digits))
    IN  IF stop = 0 THEN cs ELSE SubSeq(cs, 1, stop - 1)

\* parseInt(v, 10): the leading optionally signed digits of String(v), NaN
\* when there are none.  (Leading white space, which parseInt skips, does
\* not occur in the values of this model.)
parseInt(v) ==
    LET cs == JSString(v)
        neg == cs # <<>> /\ cs[1] = "-"
        body == IF cs # <<>> /\ cs[1] \in {"-", "+"} THEN Drop(cs, 2) ELSE cs
        ds == DigitPrefix(body)
    IN  IF ds = <<>> THEN NaN
        ELSE Num(IF neg THEN -DigitsValue(ds) ELSE DigitsValue(ds))

\* parseInt(x / 100, 10) for a number x: x / 100 prints as its decimal
\* expansion (its magnitude is below 1e21) and parseInt reads the integer
\* part, which truncates toward zero; NaN / 100 is NaN.
parseIntOfHundredth(v) ==
    IF v.t # "num" THEN NaN
    ELSE Num(IF v.n < 0 THEN -((-v.n) \div 100) ELSE v.n \div 100)

-----------------------------------------------------------------------------
(* Constants of the reporter and of opentracing's Tags.                    *)

\* 0.005, 0.01, 0.025, 0.05, 0.1, 0.25, 0.5, 1, 2.5, 5, 10 seconds.
DURATION_HISTOGRAM_BUCKETS ==
    <<5000, 10000, 25000, 50000, 100000, 250000, 500000, 1000000,
      2500000, 5000000, 10000000>>

METRICS_NAME_OPERATION == "operations"
METRICS_NAME_REQUESTS == "requests"
METRICS_NAME_HTTP_REQUEST_LATENCY == "request_latency"
METRICS_NAME_HTTP_STATUS_CODES == "http_requests"
LABEL_OTHER == <<"o", "t", "h", "e", "r">>

SPAN_KIND == "span.kind"
HTTP_URL == "http.url"
HTTP_METHOD == "http.method"
HTTP_STATUS_CODE == "http.status_code"
ERROR == "error"
SPAN_KIND_RPC_SERVER == <<"s", "e", "r", "v", "e", "r">>

sTrue == <<"t", "r", "u", "e">>
sFalse == <<"f", "a", "l", "s", "e">>

-----------------------------------------------------------------------------
(* Spans: the interface the reporter reads.                                *)

\* A finished span: operationName(), duration() in milliseconds, its tags.
MkSpan(name, duration, kind, url, method, status, err) ==
    [isSpan |-> TRUE, operationName |-> name, duration |-> duration,
     tags |-> [k \in {SPAN_KIND, HTTP_URL, HTTP_METHOD, HTTP_STATUS_CODE, ERROR} |->
                 CASE k = SPAN_KIND -> kind
                   [] k = HTTP_URL -> url
                   [] k = HTTP_METHOD -> method
                   [] k = HTTP_STATUS_CODE -> status
                   [] k = ERROR -> err]]

\* An argument that is not an instance of Span.
NotASpan ==
    [isSpan |-> FALSE, operationName |-> <<>>, duration |-> 0,
     tags |-> [k \in {SPAN_KIND, HTTP_URL, HTTP_METHOD, HTTP_STATUS_CODE, ERROR} |-> Undef]]

\* span.getTag(key): the tag's value, undefined when the span has no such tag.
getTag(span, key) == IF key \in DOMAIN span.tags THEN span.tags[key] ELSE Undef

-----------------------------------------------------------------------------
(* The static helpers.                                                     *)

\* /[^A-Za-z0-9\-_/.]/ : the characters NORM_RE matches.
NORM_RE(c) == ~(IsLetter(c) \/ IsDigit(c) \/ c \in {"-", "_", "/", "."})

\* /[.-]/ : the characters NS_RE matches.
NS_RE(c) == c \in {".", "-"}

SpecialSchemes ==
    {<<"h", "t", "t", "p">>, <<"h", "t", "t", "p", "s">>, <<"w", "s">>,
     <<"w", "s", "s">>, <<"f", "t", "p">>}

\* The characters of cs before its first character of the set (all of cs
\* when it has none), and the characters from that one on.
TakeUntil(cs, set) ==
    LET i == IndexOfAny(cs, set)
    IN  IF i = 0 THEN cs ELSE SubSeq(cs, 1, i - 1)

DropUntil(cs, set) ==
    LET i == IndexOfAny(cs, set)
    IN  IF i = 0 THEN <<>> ELSE Drop(cs, i)

URLFailure == [ok |-> FALSE, protocol |-> <<>>, pathname |-> <<>>]

\* The URL parser from the host on.  A special scheme needs a host; the
\* path ends at the query or the fragment; the empty path of a special
\* scheme is "/".
URLFromHost(scheme, special, host, afterHost) ==
    IF \/ special /\ host = <<>>
       \/ \E i \in DOMAIN host :
             ~(IsLetter(host[i]) \/ IsDigit(host[i]) \/ host[i] \in {".", "-", ":"})
    THEN URLFailure
    ELSE [ok |-> TRUE,
          protocol |-> scheme \o <<":">>,
          pathname |-> IF special /\ TakeUntil(afterHost, {"?", "#"}) = <<>>
                       THEN <<"/">>
                       ELSE TakeUntil(afterHost, {"?", "#"})]

\* The URL parser after "scheme:".  A special scheme skips the slashes that
\* follow and reads a host; another scheme reads a host only after "//".
URLFromScheme(scheme, rest) ==
    IF scheme \in SpecialSchemes
    THEN URLFromHost(scheme, TRUE,
                     TakeUntil(DropUntil(rest, Range(rest) \ {"/"}), {"/", "?", "#"}),
                     DropUntil(DropUntil(rest, Range(rest) \ {"/"}), {"/", "?", "#"}))
    ELSE IF Len(rest) >= 2 /\ rest[1] = "/" /\ rest[2] = "/"
    THEN URLFromHost(scheme, FALSE,
                     TakeUntil(Drop(rest, 3), {"/", "?", "#"}),
                     DropUntil(Drop(rest, 3), {"/", "?", "#"}))
    ELSE URLFromHost(scheme, FALSE, <<>>, rest)

\* new URL(cs) without a base, for URLs of the shape scheme:[//host][path]
\* [?query][#fragment] with no credentials and no character the parser
\* would percent-encode or normalise: ok is FALSE where the constructor
\* throws; protocol is the lower-cased scheme and ":".
ParseURL(cs) ==
    LET colon == IndexOfAny(cs, {":"})
    IN  IF /\ colon > 1
           /\ IsLetter(cs[1])
           /\ \A i \in 1..(colon - 1) :
                 IsLetter(cs[i]) \/ IsDigit(cs[i]) \/ cs[i] \in {"+", "-", "."}
        THEN URLFromScheme(toLowerCase(SubSeq(cs, 1, colon - 1)), Drop(cs, colon + 1))
        ELSE URLFailure

\* The name endpointName composes from the parsed URL and the method, with
\* NORM_RE replaced by '-'.
NormalizedName(url, method) ==
    LET name == toUpperCase(SubSeq(url.protocol, 1, Len(url.protocol) - 1))
                \o <<" ">> \o toUpperCase(method) \o <<" ">>
                \o (IF url.pathname = <<>> THEN <<"/">> ELSE url.pathname)
    IN  [i \in DOMAIN name |-> IF NORM_RE(name[i]) THEN "-" ELSE name[i]]

\* The part of endpointName after new URL(reqUrl): it throws where the
\* constructor threw and where the HTTP-method tag has no toUpperCase (it
\* is not a string).
EndpointOfURL(url, methodTag) ==
    IF ~url.ok \/ methodTag.t # "str" THEN [threw |-> TRUE, v |-> <<>>]
    ELSE [threw |-> FALSE, v |-> NormalizedName(url, methodTag.s)]

\* endpointName(span): [threw, v].
endpointName(span) ==
    IF ~Truthy(getTag(span, HTTP_URL)) THEN [threw |-> FALSE, v |-> LABEL_OTHER]
    ELSE EndpointOfURL(ParseURL(JSString(getTag(span, HTTP_URL))),
                       getTag(span, HTTP_METHOD))

\* The inner ns of metricName: nm.replace(NS_RE, '_').
ns(nm) == [i \in DOMAIN nm |-> IF NS_RE(nm[i]) THEN "_" ELSE nm[i]]

\* metricName(name, namespace); an omitted namespace is ''.
metricName(name, namespace) ==
    IF namespace = <<>> THEN ns(name)
    ELSE IF name # <<>> THEN ns(namespace)
    ELSE ns(namespace) \o <<":">> \o ns(name)

\* errorValue comparing the tag with 'true' as it is, toLowerCase left out.
errorValueCaseSensitive(span) ==
    LET err == getTag(span, ERROR)
    IN  IF ~Truthy(err) \/ (err.t = "str" /\ err.s # sTrue)
        THEN sFalse
        ELSE sTrue

\* errorValue(span): 'true' or 'false'.
errorValue(span) ==
    LET err == getTag(span, ERROR)
    IN  IF ~Truthy(err) \/ (err.t = "str" /\ toLowerCase(err.s) # sTrue)
        THEN sFalse
        ELSE sTrue

\* isHttpServerSpan(span).
isHttpServerSpan(span) ==
    LET rpcServer == getTag(span, SPAN_KIND) = Str(SPAN_KIND_RPC_SERVER)
        httpTags == \/ Truthy(getTag(span, HTTP_URL))
                    \/ Truthy(getTag(span, HTTP_METHOD))
                    \/ Truthy(getTag(span, HTTP_STATUS_CODE))
    IN  rpcServer /\ httpTags
-----------------------------------------------------------------------------
(* prom-client: the registry, counters and histograms.                     *)
(*                                                                         *)
(* The registry is the sequence of its metrics in registration order.  A   *)
(* metric is [name, type, series]; series is the sequence, in order of     *)
(* first use, of the metric's label sets: [labels, bucketValues, sum,      *)
(* count, value].  A histogram keeps, as prom-client does, in              *)
(* bucketValues[i] the number of observations that fell into bucket i and  *)
(* no lower one; a counter keeps its total in value.                       *)

\* registry.getSingleMetric(name): the position of the metric, 0 for none.
getSingleMetric(reg, name) ==
    IF \E i \in DOMAIN reg : reg[i].name = name
    THEN CHOOSE i \in DOMAIN reg : reg[i].name = name
    ELSE 0

\* new Prometheus.Histogram / Counter ({..., registers: [registry]}).
NewMetric(reg, name, type) ==
    Append(reg, [name |-> name, type |-> type, series |-> <<>>])

\* The position in a metric's series of a label set, 0 for none.
SeriesIndex(metric, labels) ==
    IF \E i \in DOMAIN metric.series : metric.series[i].labels = labels
    THEN CHOOSE i \in DOMAIN metric.series : metric.series[i].labels = labels
    ELSE 0

NewSeries(labels) ==
    [labels |-> labels,
     bucketValues |-> [i \in DOMAIN DURATION_HISTOGRAM_BUCKETS |-> 0],
     sum |-> 0, count |-> 0, value |-> 0]

\* The metric with the series of `labels` present (created at zero).
WithSeries(metric, labels) ==
    IF SeriesIndex(metric, labels) # 0 THEN metric
    ELSE [metric EXCEPT !.series = Append(@, NewSeries(labels))]

\* findBound: the first bucket whose upper bound is at least the value, 0
\* when the value is above every bound.
findBound(value) ==
    IF \E i \in DOMAIN DURATION_HISTOGRAM_BUCKETS : value <= DURATION_HISTOGRAM_BUCKETS[i]
    THEN CHOOSE i \in DOMAIN DURATION_HISTOGRAM_BUCKETS :
            /\ value <= DURATION_HISTOGRAM_BUCKETS[i]
            /\ \A j \in 1..(i - 1) : value > DURATION_HISTOGRAM_BUCKETS[j]
    ELSE 0

\* histogram.labels(...labels).observe(value), on the registry's metric `name`.
observe(reg, name, labels, value) ==
    LET m == getSingleMetric(reg, name)
        metric == WithSeries(reg[m], labels)
        s == SeriesIndex(metric, labels)
        b == findBound(value)
        old == metric.series[s]
        new == [old EXCEPT
                  !.sum = @ + value,
                  !.count = @ + 1,
                  !.bucketValues = IF b = 0 THEN @ ELSE [@ EXCEPT ![b] = @ + 1]]
    IN  [reg EXCEPT ![m] = [metric EXCEPT !.series[s] = new]]

\* counter.labels(...labels).inc(), on the registry's metric `name`.
inc(reg, name, labels) ==
    LET m == getSingleMetric(reg, name)
        metric == WithSeries(reg[m], labels)
        s == SeriesIndex(metric, labels)
    IN  [reg EXCEPT ![m] = [metric EXCEPT !.series[s].value = @ + 1]]

\* What a histogram's get() reports for bucket i of a series: the number of
\* observations in bucket i or a lower one.
RECURSIVE CumulativeBucket(_, _)
CumulativeBucket(series, i) ==
    IF i = 0 THEN 0 ELSE CumulativeBucket(series, i - 1) + series.bucketValues[i]

\* The sample lines of one series, in exposition order: for a histogram the
\* buckets in ascending order, +Inf (le = -1 here), sum and count; for a
\* counter its value.
SeriesLines(metric, series) ==
    IF metric.type = "histogram"
    THEN [i \in DOMAIN DURATION_HISTOGRAM_BUCKETS |->
            [line |-> "bucket", name |-> metric.name, le |-> DURATION_HISTOGRAM_BUCKETS[i],
             labels |-> series.labels, v |-> CumulativeBucket(series, i)]]
         \o <<[line |-> "bucket", name |-> metric.name, le |-> -1,
               labels |-> series.labels, v |-> series.count],
              [line |-> "sum", name |-> metric.name, le |-> 0,
               labels |-> series.labels, v |-> series.sum],
              [line |-> "count", name |-> metric.name, le |-> 0,
               labels |-> series.labels, v |-> series.count]>>
    ELSE <<[line |-> "value", name |-> metric.name, le |-> 0,
            labels |-> series.labels, v |-> series.value]>>

RECURSIVE AllSeriesLines(_, _)
AllSeriesLines(metric, k) ==
    IF k = 0 THEN <<>>
    ELSE AllSeriesLines(metric, k - 1) \o SeriesLines(metric, metric.series[k])

\* One metric's block: # HELP, # TYPE and the sample lines.
MetricLines(metric) ==
    <<[line |-> "HELP", name |-> metric.name, le |-> 0, labels |-> <<>>, v |-> 0],
      [line |-> "TYPE " \o metric.type, name |-> metric.name, le |-> 0,
       labels |-> <<>>, v |-> 0]>>
    \o AllSeriesLines(metric, Len(metric.series))

RECURSIVE RegistryLines(_, _)
RegistryLines(reg, k) ==
    IF k = 0 THEN <<>> ELSE RegistryLines(reg, k - 1) \o MetricLines(reg[k])

\* metrics(): registry.metrics(), the lines of every metric in registration
\* order.
metrics(reg) == RegistryLines(reg, Len(reg))

-----------------------------------------------------------------------------
(* The reporter.                                                           *)

\* The four get-or-create accessors: the registry with the metric
\* registered (the metric they return is the one of that name in it).
_metricsOperationDurationSeconds(reg) ==
    IF getSingleMetric(reg, METRICS_NAME_OPERATION) # 0 THEN reg
    ELSE NewMetric(reg, METRICS_NAME_OPERATION, "histogram")

_metricsHttpRequestLatency(reg) ==
    IF getSingleMetric(reg, METRICS_NAME_HTTP_REQUEST_LATENCY) # 0 THEN reg
    ELSE NewMetric(reg, METRICS_NAME_HTTP_REQUEST_LATENCY, "histogram")

\* _metricsHttpRequestCount without the look-up: a new counter on every call.
metricsHttpRequestCountAlwaysNew(reg) == NewMetric(reg, METRICS_NAME_REQUESTS, "counter")

_metricsHttpRequestCount(reg) ==
    IF getSingleMetric(reg, METRICS_NAME_REQUESTS) # 0 THEN reg
    ELSE NewMetric(reg, METRICS_NAME_REQUESTS, "counter")

_metricsHttpRequestStatusCodes(reg) ==
    IF getSingleMetric(reg, METRICS_NAME_HTTP_STATUS_CODES) # 0 THEN reg
    ELSE NewMetric(reg, METRICS_NAME_HTTP_STATUS_CODES, "counter")

\* The outcome of a call: the registry it leaves and whether it threw.
Returned(reg) == [reg |-> reg, threw |-> FALSE]
Threw(reg) == [reg |-> reg, threw |-> TRUE]

\* span.duration() observed as it is, the division by 1000 left out.
DurationMilliseconds(span) == span.duration * 1000000

\* span.duration() / 1000, in microseconds.
DurationSeconds(span) == span.duration * 1000

\* The callback of Object.entries(ignoreTags).some on the rules from k on:
\* "true" when a rule matches, "false" when none does, "throw" when a
\* truthy tag value has no match method (it is not a string).
RECURSIVE isIgnoredFrom(_, _, _)
isIgnoredFrom(rules, span, k) ==
    IF k > Len(rules) THEN "false"
    ELSE LET tagValue == getTag(span, rules[k].tagKey)
         IN  IF ~Truthy(tagValue) THEN isIgnoredFrom(rules, span, k + 1)
             ELSE IF tagValue.t # "str" THEN "throw"
             ELSE IF Matches(tagValue.s, rules[k].regexp) THEN "true"
             ELSE isIgnoredFrom(rules, span, k + 1)

isIgnored(rules, span) == isIgnoredFrom(rules, span, 1)

_reportOperationFinish(reg, span) ==
    Returned(observe(_metricsOperationDurationSeconds(reg), METRICS_NAME_OPERATION,
                     <<span.operationName>>, DurationSeconds(span)))

\* _recordHttpRequestMetrics without the observation of the latency.
recordHttpRequestMetricsCountOnly(reg, endpoint, err, duration) ==
    inc(_metricsHttpRequestCount(reg), METRICS_NAME_REQUESTS, <<endpoint, err>>)

_recordHttpRequestMetrics(reg, endpoint, err, duration) ==
    LET counted == inc(_metricsHttpRequestCount(reg), METRICS_NAME_REQUESTS,
                       <<endpoint, err>>)
    IN  observe(_metricsHttpRequestLatency(counted), METRICS_NAME_HTTP_REQUEST_LATENCY,
                <<endpoint, err>>, duration)

_recordHttpResponseMetrics(reg, endpoint, statusCode) ==
    LET mod == parseIntOfHundredth(statusCode)
    IN  IF mod.t = "num" /\ mod.n >= 2 /\ mod.n <= 5
        THEN inc(_metricsHttpRequestStatusCodes(reg), METRICS_NAME_HTTP_STATUS_CODES,
                 <<endpoint, <<Digits[mod.n + 1], "x", "x">>>>)
        ELSE reg

\* _reportHttpRequestFinish with the requests counter fetched before the
\* endpoint name is computed: a throwing endpointName leaves it registered.
reportHttpRequestFinishCounterFirst(reg, span) ==
    LET endpoint == endpointName(span)
        err == errorValue(span)
        counter == _metricsHttpRequestCount(reg)
        requested == _recordHttpRequestMetrics(counter, endpoint.v, err, DurationSeconds(span))
    IN  IF endpoint.threw THEN Threw(counter)
        ELSE Returned(_recordHttpResponseMetrics(requested, endpoint.v,
                                                 parseInt(getTag(span, HTTP_STATUS_CODE))))

_reportHttpRequestFinish(reg, span) ==
    LET endpoint == endpointName(span)
        err == errorValue(span)
        requested == _recordHttpRequestMetrics(reg, endpoint.v, err, DurationSeconds(span))
    IN  IF endpoint.threw THEN Threw(reg)
        ELSE Returned(_recordHttpResponseMetrics(requested, endpoint.v,
                                                 parseInt(getTag(span, HTTP_STATUS_CODE))))

\* reportFinish(span) on a reporter with these ignore rules and registry.
reportFinish(reg, rules, span) ==
    IF ~span.isSpan THEN Threw(reg)
    ELSE IF isIgnored(rules, span) = "throw" THEN Threw(reg)
    ELSE IF isIgnored(rules, span) = "true" THEN Returned(reg)
    ELSE IF isHttpServerSpan(span) THEN _reportHttpRequestFinish(reg, span)
    ELSE _reportOperationFinish(reg, span)

\* The constructor without its eager this._metricsOperationDurationSeconds().
constructorLazy == <<>>

\* new PrometheusReporter({ ignoreTags }): a fresh registry with the
\* operations histogram registered.
constructor == _metricsOperationDurationSeconds(<<>>)
-----------------------------------------------------------------------------
(* The inputs.                                                             *)

goodUrl == <<"h", "t", "t", "p", ":", "/", "/", "h", "/", "p">>
rootUrl == <<"h", "t", "t", "p", "s", ":", "/", "/", "h">>
badUrl == <<"h", "/", "p">>
sGet == <<"g", "e", "t">>
sClient == <<"c", "l", "i", "e", "n", "t">>

Names == {<<"a">>, <<"b">>}
Durations == {5, 300, 12000}
Statuses == {Undef, Num(0), Num(199), Num(200), Num(599), Num(600), Str(<<"4", "0", "4">>)}

\* Spans that are plain operations.
OperationSpans ==
    {MkSpan(n, d, Undef, Undef, Undef, Undef, Undef) : n \in Names, d \in Durations}

\* Spans that carry HTTP tags and are not of the RPC-server kind.
ClientSpans ==
    {MkSpan(<<"a">>, 300, k, Str(goodUrl), Str(sGet), s, Undef) :
        k \in {Undef, Str(sClient)}, s \in {Num(199), Num(200)}}

\* RPC-server spans whose HTTP tags are absent, '' or 0.
BareServerSpans ==
    {MkSpan(<<"a">>, 300, Str(SPAN_KIND_RPC_SERVER), u, Undef, s, Undef) :
        u \in {Undef, Str(<<>>)}, s \in {Undef, Num(0)}}

\* RPC-server spans with HTTP tags: every status code; every URL with and
\* without a method and an error tag; every duration.
ServerSpans ==
    {MkSpan(<<"a">>, 300, Str(SPAN_KIND_RPC_SERVER), Str(goodUrl), Str(sGet), s, Undef) :
        s \in Statuses}
    \cup
    {MkSpan(<<"a">>, 300, Str(SPAN_KIND_RPC_SERVER), u, m, Num(200), e) :
        u \in {Undef, Str(goodUrl), Str(rootUrl), Str(badUrl)},
        m \in {Undef, Str(sGet)},
        e \in {Undef, Str(<<"T", "r", "u", "e">>)}}
    \cup
    {MkSpan(<<"a">>, d, Str(SPAN_KIND_RPC_SERVER), Str(goodUrl), Str(sGet), Num(200), Undef) :
        d \in Durations}

Spans == OperationSpans \cup ClientSpans \cup BareServerSpans \cup ServerSpans

\* What reportFinish may be handed.
Arguments == Spans \cup {NotASpan}

\* The values an error tag may have: absent, strings, numbers, booleans.
ErrorTags ==
    {Undef, NaN, Num(0), Num(1), Bool(FALSE), Bool(TRUE),
     Str(<<>>), Str(sTrue), Str(<<"T", "R", "U", "E">>), Str(<<"t", "R", "u", "E">>),
     Str(sFalse), Str(<<"t", "r", "u">>), Str(<<"t", "r", "u", "e", "e">>), Str(<<"1">>)}

\* RPC-server spans with every error tag; a plain operation and an
\* RPC-server span without a URL, with and without an error.
ErrorSpans ==
    {MkSpan(<<"a">>, 300, Str(SPAN_KIND_RPC_SERVER), Str(goodUrl), Str(sGet), Undef, e) :
        e \in ErrorTags}
    \cup
    {MkSpan(<<"a">>, 300, k, Undef, m, Undef, e) :
        k \in {Undef, Str(SPAN_KIND_RPC_SERVER)},
        m \in {Str(sGet)},
        e \in {Undef, Str(<<"T", "R", "U", "E">>)}}

\* The ignoreTags a reporter may be constructed with.
IgnoreConfigs ==
    {<<>>,
     <<[tagKey |-> HTTP_URL, regexp |-> <<"s">>]>>,
     <<[tagKey |-> HTTP_STATUS_CODE, regexp |-> <<"0">>],
       [tagKey |-> HTTP_URL, regexp |-> <<"s">>]>>}

NameChars == {"a", ".", "-", "_"}

\* The strings over NameChars of length at most k.
RECURSIVE StringsUpTo(_)
StringsUpTo(k) ==
    IF k = 0 THEN {<<>>}
    ELSE LET shorter == StringsUpTo(k - 1)
         IN  shorter \cup {Append(cs, c) : cs \in shorter, c \in NameChars}

-----------------------------------------------------------------------------
(* The state machine.                                                      *)

NoStatic == [fn |-> "none", args |-> <<>>, ret |-> <<>>]

Call(op, arg, threw) == [op |-> op, arg |-> arg, threw |-> threw]

Init ==
    /\ ignoreTags \in IgnoreConfigs
    /\ registry = constructor
    /\ log = <<>>
    /\ static = NoStatic

\* reporter.reportFinish(arg)
ReportFinish ==
    \E arg \in Arguments :
        LET r == reportFinish(registry, ignoreTags, arg)
        IN  /\ Len(log) < MaxCalls
            /\ registry' = r.reg
            /\ log' = Append(log, Call("reportFinish", arg, r.threw))
            /\ UNCHANGED <<ignoreTags, static>>

\* reporter.metrics()
Metrics ==
    /\ Len(log) < MaxCalls
    /\ log' = Append(log, Call("metrics", NotASpan, FALSE))
    /\ UNCHANGED <<registry, ignoreTags, static>>

\* reporter._metricsOperationDurationSeconds()
GetOperationDurationSeconds ==
    /\ Len(log) < MaxCalls
    /\ registry' = _metricsOperationDurationSeconds(registry)
    /\ log' = Append(log, Call(METRICS_NAME_OPERATION, NotASpan, FALSE))
    /\ UNCHANGED <<ignoreTags, static>>

\* reporter._metricsHttpRequestLatency()
GetHttpRequestLatency ==
    /\ Len(log) < MaxCalls
    /\ registry' = _metricsHttpRequestLatency(registry)
    /\ log' = Append(log, Call(METRICS_NAME_HTTP_REQUEST_LATENCY, NotASpan, FALSE))
    /\ UNCHANGED <<ignoreTags, static>>

\* reporter._metricsHttpRequestCount()
GetHttpRequestCount ==
    /\ Len(log) < MaxCalls
    /\ registry' = _metricsHttpRequestCount(registry)
    /\ log' = Append(log, Call(METRICS_NAME_REQUESTS, NotASpan, FALSE))
    /\ UNCHANGED <<ignoreTags, static>>

\* reporter._metricsHttpRequestStatusCodes()
GetHttpRequestStatusCodes ==
    /\ Len(log) < MaxCalls
    /\ registry' = _metricsHttpRequestStatusCodes(registry)
    /\ log' = Append(log, Call(METRICS_NAME_HTTP_STATUS_CODES, NotASpan, FALSE))
    /\ UNCHANGED <<ignoreTags, static>>

\* PrometheusReporter.metricName(name, namespace)
CallMetricName ==
    \E name \in StringsUpTo(MaxNameLen), namespace \in StringsUpTo(MaxNameLen) :
        /\ static' = [fn |-> "metricName", args |-> <<name, namespace>>,
                      ret |-> metricName(name, namespace)]
        /\ UNCHANGED <<registry, ignoreTags, log>>

\* PrometheusReporter.errorValue(span)
CallErrorValue ==
    \E span \in ErrorSpans :
        /\ Len(log) < MaxCalls
        /\ static' = [fn |-> "errorValue", args |-> <<span>>, ret |-> errorValue(span)]
        /\ log' = Append(log, Call("errorValue", span, FALSE))
        /\ UNCHANGED <<registry, ignoreTags>>

\* reporter.reportFinish(span) on a span with an error tag
ReportFinishWithError ==
    \E span \in ErrorSpans :
        LET r == reportFinish(registry, ignoreTags, span)
        IN  /\ Len(log) < MaxCalls
            /\ registry' = r.reg
            /\ log' = Append(log, Call("reportFinish", span, r.threw))
            /\ UNCHANGED <<ignoreTags, static>>

\* The public operations of a reporter.
Next == ReportFinish \/ Metrics

Spec == Init /\ [][Next]_vars

\* The public operations and the get-or-create accessors.
NextAccessors ==
    \/ ReportFinish
    \/ Metrics
    \/ GetOperationDurationSeconds
    \/ GetHttpRequestLatency
    \/ GetHttpRequestCount
    \/ GetHttpRequestStatusCodes

SpecAccessors == Init /\ [][NextAccessors]_vars

\* The static helpers, applied to bounded inputs.
NextStatic == CallMetricName

SpecStatic == Init /\ [][NextStatic]_vars

\* errorValue on its own and inside reportFinish, over every error tag.
NextErrors == CallErrorValue \/ ReportFinishWithError

SpecErrors == Init /\ [][NextErrors]_vars
-----------------------------------------------------------------------------
(* What the properties below read from a state and from a step.            *)

\* The call a step makes: the entry it appends to the log.
IsCall(op) == Len(log') = Len(log) + 1 /\ log'[Len(log')].op = op
NewCall == log'[Len(log')]

\* A step that is reportFinish(span) on a Span.
ReportsSpan == IsCall("reportFinish") /\ NewCall.arg.isSpan

\* The ignore condition as the specification words it: for some rule the
\* span has the tag (a string, a number or a boolean) and the tag's string
\* value matches the pattern.
IgnoredByRule(rules, span) ==
    \E k \in DOMAIN rules :
        LET v == getTag(span, rules[k].tagKey)
        IN  v.t \in {"str", "num", "bool"} /\ Matches(JSString(v), rules[k].regexp)

\* The series of a metric of the registry; none for a metric not registered.
SeriesOf(reg, name) ==
    IF getSingleMetric(reg, name) = 0 THEN <<>> ELSE reg[getSingleMetric(reg, name)].series

\* The series of a label set: a fresh one when the metric has none for it.
SeriesAt(reg, name, labels) ==
    IF \E i \in DOMAIN SeriesOf(reg, name) : SeriesOf(reg, name)[i].labels = labels
    THEN SeriesOf(reg, name)[CHOOSE i \in DOMAIN SeriesOf(reg, name) :
                                SeriesOf(reg, name)[i].labels = labels]
    ELSE NewSeries(labels)

\* The series of a metric other than the one of `labels`.
OtherSeries(reg, name, labels) ==
    SelectSeq(SeriesOf(reg, name), LAMBDA s : s.labels # labels)

\* The names of the registered metrics, in registration order.
RegisteredNames(reg) == [i \in DOMAIN reg |-> reg[i].name]

\* The HTTP status code of a span is an integer from 200 to 599.
StatusInRange(span) ==
    LET code == parseInt(getTag(span, HTTP_STATUS_CODE))
    IN  code.t = "num" /\ code.n >= 200 /\ code.n <= 599

\* "<d>xx" for the status code of a span.
StatusLabel(span) ==
    <<Digits[(parseInt(getTag(span, HTTP_STATUS_CODE)).n \div 100) + 1], "x", "x">>

\* The URL tag of a span is absent or a well-formed URL.
UrlAbsentOrWellFormed(span) ==
    LET u == getTag(span, HTTP_URL)
    IN  u.t = "undef" \/ (u.t = "str" /\ ParseURL(u.s).ok)

\* series `new` is series `old` with one more observation of `value`.
OneMoreObservation(old, new, value) ==
    /\ new.count = old.count + 1
    /\ new.sum = old.sum + value
    /\ \A i \in DOMAIN DURATION_HISTOGRAM_BUCKETS :
          CumulativeBucket(new, i) =
             CumulativeBucket(old, i) + (IF value <= DURATION_HISTOGRAM_BUCKETS[i] THEN 1 ELSE 0)

\* The step records the span as an HTTP request: requests{endpoint,error}
\* goes up by one and request_latency{endpoint,error} gets one observation
\* of duration / 1000; no other series of the two changes.
RecordsRequest(span, endpoint) ==
    LET labels == <<endpoint, errorValue(span)>>
    IN  /\ SeriesAt(registry', METRICS_NAME_REQUESTS, labels).value =
              SeriesAt(registry, METRICS_NAME_REQUESTS, labels).value + 1
        /\ OtherSeries(registry', METRICS_NAME_REQUESTS, labels) =
              OtherSeries(registry, METRICS_NAME_REQUESTS, labels)
        /\ OneMoreObservation(SeriesAt(registry, METRICS_NAME_HTTP_REQUEST_LATENCY, labels),
                              SeriesAt(registry', METRICS_NAME_HTTP_REQUEST_LATENCY, labels),
                              span.duration * 1000)
        /\ OtherSeries(registry', METRICS_NAME_HTTP_REQUEST_LATENCY, labels) =
              OtherSeries(registry, METRICS_NAME_HTTP_REQUEST_LATENCY, labels)

-----------------------------------------------------------------------------
(* C1.  A span that an ignore rule matches -- the span has the rule's tag, *)
(* a string, a number or a boolean, and the tag's string value matches    *)
(* the pattern -- makes reportFinish return normally and leave the        *)
(* registry, and so metrics(), unchanged.                                  *)
(* The code calls tagValue.match on the tag's value itself: a truthy      *)
(* number or boolean has no match and the call throws; 0, false and ''    *)
(* are skipped and the span is recorded.                                   *)
C1_IgnoredSpanIsNoOp ==
    [][(ReportsSpan /\ IgnoredByRule(ignoreTags, NewCall.arg))
          => /\ ~NewCall.threw
             /\ registry' = registry
             /\ metrics(registry') = metrics(registry)]_vars
-----------------------------------------------------------------------------
(* C2.  reportFinish is all-or-nothing.  A call that throws (the argument  *)
(* is not a Span, the ignore filter or endpointName throws) leaves the     *)
(* registry exactly as it was: the same metrics, the same series, the     *)
(* same values.  No call applies part of its recording: the requests      *)
(* counters and the request_latency counts go up by the same amount, one  *)
(* or nothing, in every call.                                              *)

RECURSIVE SumOver(_, _, _)
SumOver(series, field, k) ==
    IF k = 0 THEN 0 ELSE SumOver(series, field, k - 1) + series[k][field]

\* The total of a field over the series of a metric.
Total(reg, name, field) == SumOver(SeriesOf(reg, name), field, Len(SeriesOf(reg, name)))

C2_AllOrNothing ==
    [][IsCall("reportFinish")
          => /\ NewCall.threw => registry' = registry
             /\ Total(registry', METRICS_NAME_REQUESTS, "value")
                   - Total(registry, METRICS_NAME_REQUESTS, "value")
                = Total(registry', METRICS_NAME_HTTP_REQUEST_LATENCY, "count")
                   - Total(registry, METRICS_NAME_HTTP_REQUEST_LATENCY, "count")
             /\ Total(registry', METRICS_NAME_REQUESTS, "value")
                   - Total(registry, METRICS_NAME_REQUESTS, "value") \in {0, 1}]_vars

\* A call on an RPC-server span with a malformed URL has thrown, on a
\* registry that already held HTTP metrics.
C2_Witness ==
    /\ Len(log) = 2
    /\ log[2].op = "reportFinish"
    /\ log[2].threw
    /\ getTag(log[2].arg, HTTP_URL) = Str(badUrl)
    /\ isHttpServerSpan(log[2].arg)
    /\ isIgnored(ignoreTags, log[2].arg) = "false"
    /\ SeriesOf(registry, METRICS_NAME_REQUESTS) # <<>>

-----------------------------------------------------------------------------
(* C3.  For every span that no ignore rule matches, that isHttpServerSpan  *)
(* accepts and whose HTTP-URL tag is absent or a well-formed URL,          *)
(* reportFinish completes, adds one to requests{endpoint,error} and one   *)
(* observation of duration / 1000 to request_latency{endpoint,error},     *)
(* with endpoint = endpointName(span) and error = errorValue(span), and   *)
(* leaves the operations histogram as it was.                              *)
(* The code throws for such a span when it has a URL and no string         *)
(* HTTP-method tag: endpointName calls toUpperCase on the method.          *)
C3_HttpSpanIsRecorded ==
    [][(/\ ReportsSpan
        /\ ~IgnoredByRule(ignoreTags, NewCall.arg)
        /\ isHttpServerSpan(NewCall.arg)
        /\ UrlAbsentOrWellFormed(NewCall.arg))
          => /\ ~NewCall.threw
             /\ RecordsRequest(NewCall.arg, endpointName(NewCall.arg).v)
             /\ SeriesOf(registry', METRICS_NAME_OPERATION)
                   = SeriesOf(registry, METRICS_NAME_OPERATION)]_vars

-----------------------------------------------------------------------------
(* C4.  For every HTTP server span that no ignore rule matches,            *)
(* reportFinish adds one to http_requests{endpoint, "<d>xx"}, d the        *)
(* hundreds of the status code, if and only if the status code tag parses  *)
(* to an integer from 200 to 599; for any other status code no             *)
(* http_requests series is created or changed, and requests and            *)
(* request_latency are still recorded.                                     *)
(* The code records nothing at all, whatever the status code, for a span   *)
(* on which endpointName or the ignore filter throws.                      *)
C4_StatusCodeBucketing ==
    [][(/\ ReportsSpan
        /\ ~IgnoredByRule(ignoreTags, NewCall.arg)
        /\ isHttpServerSpan(NewCall.arg))
          => LET span == NewCall.arg
                 endpoint == endpointName(span).v
             IN  IF StatusInRange(span)
                 THEN /\ SeriesAt(registry', METRICS_NAME_HTTP_STATUS_CODES,
                                  <<endpoint, StatusLabel(span)>>).value
                          = SeriesAt(registry, METRICS_NAME_HTTP_STATUS_CODES,
                                     <<endpoint, StatusLabel(span)>>).value + 1
                      /\ OtherSeries(registry', METRICS_NAME_HTTP_STATUS_CODES,
                                     <<endpoint, StatusLabel(span)>>)
                          = OtherSeries(registry, METRICS_NAME_HTTP_STATUS_CODES,
                                        <<endpoint, StatusLabel(span)>>)
                 ELSE /\ SeriesOf(registry', METRICS_NAME_HTTP_STATUS_CODES)
                          = SeriesOf(registry, METRICS_NAME_HTTP_STATUS_CODES)
                      /\ RecordsRequest(span, endpoint)]_vars

-----------------------------------------------------------------------------
(* C5.  For every span that no ignore rule matches and that                *)
(* isHttpServerSpan rejects, reportFinish adds exactly one observation of  *)
(* duration / 1000 to operations{name = operationName} and changes         *)
(* nothing else; so operations_count{name = n} is the number of such       *)
(* spans reported with operation name n and operations_sum{name = n} the   *)
(* sum of their durations in seconds.                                      *)
(* The code throws, and records nothing, for such a span when it carries   *)
(* a number under a tag key that has an ignore rule (see C1).              *)

\* The calls that reported a span of operation name n which no rule
\* matches and which is not an HTTP server span.
OperationReports(n) ==
    {k \in DOMAIN log :
        /\ log[k].op = "reportFinish"
        /\ log[k].arg.isSpan
        /\ ~IgnoredByRule(ignoreTags, log[k].arg)
        /\ ~isHttpServerSpan(log[k].arg)
        /\ log[k].arg.operationName = n}

RECURSIVE SumOfDurations(_)
SumOfDurations(calls) ==
    IF calls = {} THEN 0
    ELSE LET k == CHOOSE c \in calls : TRUE
         IN  log[k].arg.duration * 1000 + SumOfDurations(calls \ {k})

C5_OperationIsObserved ==
    /\ [][(/\ ReportsSpan
           /\ ~IgnoredByRule(ignoreTags, NewCall.arg)
           /\ ~isHttpServerSpan(NewCall.arg))
             => LET span == NewCall.arg
                    labels == <<span.operationName>>
                IN  /\ ~NewCall.threw
                    /\ RegisteredNames(registry') = RegisteredNames(registry)
                    /\ OneMoreObservation(SeriesAt(registry, METRICS_NAME_OPERATION, labels),
                                          SeriesAt(registry', METRICS_NAME_OPERATION, labels),
                                          span.duration * 1000)
                    /\ OtherSeries(registry', METRICS_NAME_OPERATION, labels)
                          = OtherSeries(registry, METRICS_NAME_OPERATION, labels)
                    /\ \A name \in {METRICS_NAME_REQUESTS, METRICS_NAME_HTTP_REQUEST_LATENCY,
                                   METRICS_NAME_HTTP_STATUS_CODES} :
                          SeriesOf(registry', name) = SeriesOf(registry, name)]_vars
    /\ [](\A n \in Names :
             /\ SeriesAt(registry, METRICS_NAME_OPERATION, <<n>>).count
                   = Cardinality(OperationReports(n))
             /\ SeriesAt(registry, METRICS_NAME_OPERATION, <<n>>).sum
                   = SumOfDurations(OperationReports(n)))
-----------------------------------------------------------------------------
(* C6.  In every reachable state, for each histogram (operations,          *)
(* request_latency) and each label set: every bucket line counts the       *)
(* observations recorded for the label set that are at most the bucket's   *)
(* bound, the counts do not decrease from one bound to the next, the +Inf  *)
(* line equals the count line, and the count line is the number of         *)
(* observations recorded for the label set.                                *)

\* The calls that recorded a span: reportFinish returned and the ignore
\* filter did not match.
Recorded ==
    {k \in DOMAIN log :
        /\ log[k].op = "reportFinish"
        /\ ~log[k].threw
        /\ isIgnored(ignoreTags, log[k].arg) = "false"}

\* The calls that recorded an observation under the labels of a histogram.
ObservationsOf(name, labels) ==
    {k \in Recorded :
        IF name = METRICS_NAME_OPERATION
        THEN /\ ~isHttpServerSpan(log[k].arg)
             /\ labels = <<log[k].arg.operationName>>
        ELSE /\ isHttpServerSpan(log[k].arg)
             /\ labels = <<endpointName(log[k].arg).v, errorValue(log[k].arg)>>}

\* The label set a recorded call observes under, and in which histogram.
HistogramOf(k) ==
    IF isHttpServerSpan(log[k].arg) THEN METRICS_NAME_HTTP_REQUEST_LATENCY
    ELSE METRICS_NAME_OPERATION

LabelsOf(k) ==
    IF isHttpServerSpan(log[k].arg)
    THEN <<endpointName(log[k].arg).v, errorValue(log[k].arg)>>
    ELSE <<log[k].arg.operationName>>

Histograms == {METRICS_NAME_OPERATION, METRICS_NAME_HTTP_REQUEST_LATENCY}

\* The lines of one label set of a histogram among the lines metrics()
\* renders, in their order.
LinesOf(lines, name, labels) ==
    SelectSeq(lines, LAMBDA l : l.name = name /\ l.labels = labels)

\* The lines of one label set against the calls that observed under it.
HistogramLinesCount(ls, obs) ==
    /\ \A i \in DOMAIN ls :
          /\ (ls[i].line = "bucket" /\ ls[i].le # -1)
                => ls[i].v = Cardinality({k \in obs :
                                            log[k].arg.duration * 1000 <= ls[i].le})
          /\ (ls[i].line = "bucket" /\ ls[i].le = -1)
                => /\ ls[i].v = Cardinality(obs)
                   /\ \A j \in DOMAIN ls : ls[j].line = "count" => ls[j].v = ls[i].v
          /\ ls[i].line = "count" => ls[i].v = Cardinality(obs)
    /\ \A i, j \in DOMAIN ls :
          (/\ ls[i].line = "bucket" /\ ls[j].line = "bucket"
           /\ (ls[j].le = -1 \/ (ls[i].le # -1 /\ ls[i].le <= ls[j].le)))
             => ls[i].v <= ls[j].v

C6_HistogramCounts ==
    \A lines \in {metrics(registry)} :
       /\ \A name \in Histograms :
             \A i \in DOMAIN SeriesOf(registry, name) :
                \A labels \in {SeriesOf(registry, name)[i].labels} :
                   \A ls \in {LinesOf(lines, name, labels)},
                      obs \in {ObservationsOf(name, labels)} :
                      HistogramLinesCount(ls, obs)
       /\ \A i \in DOMAIN lines :
             (lines[i].name \in Histograms /\ lines[i].line \in {"bucket", "count"})
                => \E j \in DOMAIN SeriesOf(registry, lines[i].name) :
                      SeriesOf(registry, lines[i].name)[j].labels = lines[i].labels
       /\ \A k \in Recorded :
             Len(LinesOf(lines, HistogramOf(k), LabelsOf(k)))
                = Len(DURATION_HISTOGRAM_BUCKETS) + 3

\* A label set with two observations that fall into different buckets.
C6_Witness ==
    \E l, m \in Range(metrics(registry)) :
        /\ l.name \in Histograms /\ m.name = l.name /\ m.labels = l.labels
        /\ l.line = "bucket" /\ m.line = "bucket"
        /\ l.v = 1 /\ m.v = 2 /\ m.le # -1

-----------------------------------------------------------------------------
(* C7.  The registry holds at most one metric per name and each            *)
(* get-or-create accessor returns the registered metric when there is one: *)
(* over reportFinish, metrics() and accessor calls no metric is replaced,  *)
(* removed or reset, and every counter value, histogram count, sum and     *)
(* bucket count only grows.                                                *)

UniqueNames ==
    \A i, j \in DOMAIN registry : registry[i].name = registry[j].name => i = j

\* Every metric and series of the state is still there after the step,
\* with values at least as large.
NothingLost ==
    \A i \in DOMAIN registry :
        /\ i \in DOMAIN registry'
        /\ registry'[i].name = registry[i].name
        /\ registry'[i].type = registry[i].type
        /\ \A j \in DOMAIN registry[i].series :
              /\ j \in DOMAIN registry'[i].series
              /\ registry'[i].series[j].labels = registry[i].series[j].labels
              /\ registry'[i].series[j].value >= registry[i].series[j].value
              /\ registry'[i].series[j].count >= registry[i].series[j].count
              /\ registry'[i].series[j].sum >= registry[i].series[j].sum
              /\ \A b \in DOMAIN DURATION_HISTOGRAM_BUCKETS :
                    CumulativeBucket(registry'[i].series[j], b)
                       >= CumulativeBucket(registry[i].series[j], b)

\* An accessor called for a registered metric changes nothing; called for
\* one not registered, it registers it, empty, after the others.
AccessorGetsOrCreates ==
    \A name \in {METRICS_NAME_OPERATION, METRICS_NAME_HTTP_REQUEST_LATENCY,
                 METRICS_NAME_REQUESTS, METRICS_NAME_HTTP_STATUS_CODES} :
        IsCall(name)
           => IF getSingleMetric(registry, name) # 0
              THEN registry' = registry
              ELSE /\ Len(registry') = Len(registry) + 1
                   /\ registry'[Len(registry')].name = name
                   /\ registry'[Len(registry')].series = <<>>

C7_SingletonMetrics ==
    /\ []UniqueNames
    /\ [][NothingLost /\ AccessorGetsOrCreates]_vars

\* The accessor of the requests counter was called after an HTTP request
\* had been counted.
C7_Witness ==
    /\ Len(log) = 2
    /\ log[2].op = METRICS_NAME_REQUESTS
    /\ Total(registry, METRICS_NAME_REQUESTS, "value") = 1
-----------------------------------------------------------------------------
(* C8.  The life of the metrics.  As first stated: after construction the  *)
(* registry holds exactly the operations histogram, without series, and    *)
(* metrics() is its HELP and TYPE lines; the registered metrics stay       *)
(* {operations} until the first HTTP server span that no ignore rule       *)
(* matches is reported, and from then on requests, request_latency and     *)
(* http_requests are all registered, in that order.                        *)

\* The calls that reported an HTTP server span which no rule matches.
HttpReports ==
    {k \in DOMAIN log :
        /\ log[k].op = "reportFinish"
        /\ log[k].arg.isSpan
        /\ ~IgnoredByRule(ignoreTags, log[k].arg)
        /\ isHttpServerSpan(log[k].arg)}

OperationsShell ==
    <<[line |-> "HELP", name |-> METRICS_NAME_OPERATION, le |-> 0, labels |-> <<>>, v |-> 0],
      [line |-> "TYPE histogram", name |-> METRICS_NAME_OPERATION, le |-> 0,
       labels |-> <<>>, v |-> 0]>>

C8_AllRegisteredAtFirstHttpSpan ==
    /\ log = <<>> => metrics(registry) = OperationsShell
    /\ RegisteredNames(registry) =
          IF HttpReports = {} THEN <<METRICS_NAME_OPERATION>>
          ELSE <<METRICS_NAME_OPERATION, METRICS_NAME_REQUESTS,
                 METRICS_NAME_HTTP_REQUEST_LATENCY, METRICS_NAME_HTTP_STATUS_CODES>>

(* C8, as the code has it.  After construction the registry holds exactly  *)
(* the operations histogram, without series, and metrics() is its HELP     *)
(* and TYPE lines.  The registered metrics stay {operations} until         *)
(* reportFinish has recorded an HTTP server span (it returned, and the     *)
(* ignore filter did not match); from then on requests and                 *)
(* request_latency are registered, in that order.  http_requests is        *)
(* registered, after them, once a recorded HTTP server span had a status   *)
(* code from 200 to 599, and not before.                                   *)

\* The calls that recorded an HTTP server span.
RecordedHttp == {k \in Recorded : isHttpServerSpan(log[k].arg)}

C8_LazyHttpMetrics ==
    /\ log = <<>> => metrics(registry) = OperationsShell
    /\ RegisteredNames(registry) =
          <<METRICS_NAME_OPERATION>>
          \o (IF RecordedHttp = {} THEN <<>>
              ELSE <<METRICS_NAME_REQUESTS, METRICS_NAME_HTTP_REQUEST_LATENCY>>)
          \o (IF \E k \in RecordedHttp : StatusInRange(log[k].arg)
              THEN <<METRICS_NAME_HTTP_STATUS_CODES>>
              ELSE <<>>)

\* An HTTP server span was recorded, with a status code outside 200..599,
\* and http_requests is not registered.
C8_Witness ==
    /\ RecordedHttp # {}
    /\ \A k \in RecordedHttp : ~StatusInRange(log[k].arg)
    /\ RegisteredNames(registry) =
          <<METRICS_NAME_OPERATION, METRICS_NAME_REQUESTS, METRICS_NAME_HTTP_REQUEST_LATENCY>>

-----------------------------------------------------------------------------
(* C9.  isHttpServerSpan(span) is true if and only if the span-kind tag    *)
(* is the RPC-server one and at least one of the HTTP-URL, HTTP-METHOD and *)
(* HTTP-STATUS-CODE tags is present, whatever its value (0 and '' too);    *)
(* reportFinish takes the HTTP path exactly for those spans, so a span of  *)
(* another kind never touches requests, request_latency or http_requests.  *)
(* The code asks for a truthy tag value: an RPC-server span whose only     *)
(* HTTP tag is 0 or '' is recorded as an operation.                        *)

\* The span has the tag, whatever its value.
HasTag(span, key) == getTag(span, key).t # "undef"

ServerKindWithHttpTag(span) ==
    /\ getTag(span, SPAN_KIND) = Str(SPAN_KIND_RPC_SERVER)
    /\ \E key \in {HTTP_URL, HTTP_METHOD, HTTP_STATUS_CODE} : HasTag(span, key)

C9_HttpServerSpans ==
    [][ReportsSpan
          => /\ isHttpServerSpan(NewCall.arg) <=> ServerKindWithHttpTag(NewCall.arg)
             /\ (~NewCall.threw /\ isIgnored(ignoreTags, NewCall.arg) = "false")
                   => IF ServerKindWithHttpTag(NewCall.arg)
                      THEN /\ RecordsRequest(NewCall.arg, endpointName(NewCall.arg).v)
                           /\ SeriesOf(registry', METRICS_NAME_OPERATION)
                                 = SeriesOf(registry, METRICS_NAME_OPERATION)
                      ELSE \A name \in {METRICS_NAME_REQUESTS,
                                        METRICS_NAME_HTTP_REQUEST_LATENCY,
                                        METRICS_NAME_HTTP_STATUS_CODES} :
                              SeriesOf(registry', name) = SeriesOf(registry, name)]_vars

-----------------------------------------------------------------------------
(* C10.  metricName(name, namespace): with an empty namespace it returns   *)
(* name with every '.' and '-' replaced by '_'; with name and namespace    *)
(* both non-empty it returns 'namespace:name', '.' and '-' replaced by '_' *)
(* in each of the two.                                                     *)
(* The code returns the namespace alone when both are non-empty.           *)

\* cs with every '.' and '-' replaced by '_'.
Underscored(cs) == [i \in DOMAIN cs |-> IF cs[i] \in {".", "-"} THEN "_" ELSE cs[i]]

C10_MetricName ==
    static.fn = "metricName"
       => LET name == static.args[1]
              namespace == static.args[2]
          IN  /\ namespace = <<>> => static.ret = Underscored(name)
              /\ (name # <<>> /\ namespace # <<>>)
                    => static.ret = Underscored(namespace) \o <<":">> \o Underscored(name)

-----------------------------------------------------------------------------
(* C11.  errorValue(span) returns 'true' or 'false' whatever the error tag *)
(* is (absent, a string, a number, a boolean): 'true' when the tag is a    *)
(* string equal to 'true' ignoring case or a truthy value that is not a    *)
(* string, 'false' when it is absent, falsy or another string; and that    *)
(* value is the error label under which reportFinish records the span in   *)
(* requests and in request_latency.                                        *)

\* cs is 'true' in some mix of upper and lower case.
IsTrueIgnoringCase(cs) ==
    /\ Len(cs) = 4
    /\ cs[1] \in {"t", "T"} /\ cs[2] \in {"r", "R"}
    /\ cs[3] \in {"u", "U"} /\ cs[4] \in {"e", "E"}

\* The error label of a tag value, as stated.
ErrorLabel(v) ==
    IF v.t = "str" THEN (IF IsTrueIgnoringCase(v.s) THEN sTrue ELSE sFalse)
    ELSE IF v.t \in {"num", "bool"} /\ Truthy(v) THEN sTrue
    ELSE sFalse

\* A step in which reportFinish records an HTTP server span.
RecordsHttpSpan ==
    /\ ReportsSpan
    /\ ~NewCall.threw
    /\ isIgnored(ignoreTags, NewCall.arg) = "false"
    /\ isHttpServerSpan(NewCall.arg)

\* The labels whose series differ between two registries, for a metric.
ChangedLabels(old, new, name) ==
    {SeriesOf(new, name)[i].labels : i \in DOMAIN SeriesOf(new, name)}
       \ {SeriesOf(old, name)[i].labels :
             i \in {j \in DOMAIN SeriesOf(old, name) :
                      j \in DOMAIN SeriesOf(new, name)
                      /\ SeriesOf(old, name)[j] = SeriesOf(new, name)[j]}}

C11_ErrorValue ==
    /\ [](static.fn = "errorValue"
             => /\ static.ret \in {sTrue, sFalse}
                /\ static.ret = ErrorLabel(getTag(static.args[1], ERROR)))
    /\ [][RecordsHttpSpan
             => \A label \in {ErrorLabel(getTag(NewCall.arg, ERROR))} :
                   /\ \A ls \in ChangedLabels(registry, registry', METRICS_NAME_REQUESTS) :
                         ls[2] = label
                   /\ \A ls \in ChangedLabels(registry, registry',
                                               METRICS_NAME_HTTP_REQUEST_LATENCY) :
                         ls[2] = label
                   /\ \E endpoint \in {l[1] : l \in ChangedLabels(registry, registry',
                                                                  METRICS_NAME_REQUESTS)} :
                         /\ SeriesAt(registry', METRICS_NAME_REQUESTS,
                                     <<endpoint, label>>).value
                               = SeriesAt(registry, METRICS_NAME_REQUESTS,
                                          <<endpoint, label>>).value + 1
                         /\ SeriesAt(registry', METRICS_NAME_HTTP_REQUEST_LATENCY,
                                     <<endpoint, label>>).count
                               = SeriesAt(registry, METRICS_NAME_HTTP_REQUEST_LATENCY,
                                          <<endpoint, label>>).count + 1]_vars

\* reportFinish has recorded a span tagged error='TRUE' under error="true",
\* and errorValue has then answered 'true' for a span tagged 'tRuE'.
C11_Witness ==
    /\ static.fn = "errorValue"
    /\ getTag(static.args[1], ERROR) = Str(<<"t", "R", "u", "E">>)
    /\ static.ret = sTrue
    /\ log[1].op = "reportFinish"
    /\ ~log[1].threw
    /\ getTag(log[1].arg, ERROR) = Str(<<"T", "R", "U", "E">>)
    /\ \E i \in DOMAIN SeriesOf(registry, METRICS_NAME_REQUESTS) :
          /\ SeriesOf(registry, METRICS_NAME_REQUESTS)[i].labels[2] = sTrue
          /\ SeriesOf(registry, METRICS_NAME_REQUESTS)[i].value = 1

-----------------------------------------------------------------------------
(* C12.  In every state reached by reportFinish calls, those that throw    *)
(* included: for every label set (endpoint, error), requests{endpoint,     *)
(* error} equals the count of request_latency{endpoint, error}; and for    *)
(* every endpoint, http_requests summed over its status_code labels is at  *)
(* most requests summed over its error labels.                             *)

\* The series of a metric whose endpoint label is `endpoint`.
SeriesOfEndpoint(reg, name, endpoint) ==
    SelectSeq(SeriesOf(reg, name), LAMBDA s : s.labels[1] = endpoint)

\* The value of a counter summed over the series of an endpoint.
EndpointTotal(reg, name, endpoint) ==
    SumOver(SeriesOfEndpoint(reg, name, endpoint), "value",
            Len(SeriesOfEndpoint(reg, name, endpoint)))

\* The label sets of a metric, and the endpoints among them.
LabelSets(reg, name) == {SeriesOf(reg, name)[i].labels : i \in DOMAIN SeriesOf(reg, name)}
EndpointsOf(reg, name) == {labels[1] : labels \in LabelSets(reg, name)}

C12_RequestsMatchLatency ==
    /\ \A labels \in LabelSets(registry, METRICS_NAME_REQUESTS)
                      \cup LabelSets(registry, METRICS_NAME_HTTP_REQUEST_LATENCY) :
          SeriesAt(registry, METRICS_NAME_REQUESTS, labels).value
             = SeriesAt(registry, METRICS_NAME_HTTP_REQUEST_LATENCY, labels).count
    /\ \A endpoint \in EndpointsOf(registry, METRICS_NAME_REQUESTS)
                        \cup EndpointsOf(registry, METRICS_NAME_HTTP_STATUS_CODES) :
          EndpointTotal(registry, METRICS_NAME_HTTP_STATUS_CODES, endpoint)
             <= EndpointTotal(registry, METRICS_NAME_REQUESTS, endpoint)

\* An endpoint with two requests, one of them with a status code that is
\* counted, after a call that recorded and a call that did not count one.
C12_Witness ==
    \E endpoint \in EndpointsOf(registry, METRICS_NAME_HTTP_STATUS_CODES) :
        /\ EndpointTotal(registry, METRICS_NAME_HTTP_STATUS_CODES, endpoint) = 1
        /\ EndpointTotal(registry, METRICS_NAME_REQUESTS, endpoint) = 2
        /\ \E labels \in LabelSets(registry, METRICS_NAME_HTTP_REQUEST_LATENCY) :
              /\ labels[1] = endpoint
              /\ SeriesAt(registry, METRICS_NAME_HTTP_REQUEST_LATENCY, labels).count = 2

=============================================================================
